---- MODULE Spec2Model ----
(***************************************************************************)
(* Model of the Xopt orchestrator (xopt/base.py): the bookkeeping of       *)
(* submitted, in-flight and merged evaluations.                            *)
(*                                                                         *)
(* The orchestrator is single threaded; the only concurrency is the        *)
(* evaluator's handles (concurrent.futures.Future objects) that resolve    *)
(* on their own while the orchestrator runs.  step() is therefore cut at   *)
(* its blocking point: StepSubmit (check, generate, submit_data), Wait     *)
(* (concurrent.futures.wait returns) and Merge (strict check, update_data, *)
(* recording of the unfinished count), with handle completions free to     *)
(* happen between any two of them.  submit_data and update_data are also   *)
(* called directly, between steps.  A direct call of process_futures has   *)
(* the effect on the tables of a merge pass (or of none, when strict mode  *)
(* re-raises) and is not a separate action.                                *)
(*                                                                         *)
(* Candidates are pairwise distinct (Sample) and the evaluated function is *)
(* deterministic (evaluate), so every row of a table can be traced to the  *)
(* submission and to the handle it came from.  The evaluator's own         *)
(* submit_data and the generator's add_data may raise.                     *)
(***************************************************************************)
EXTENDS Integers, Sequences, FiniteSets, TLC

\* ---------------------------------------------------------------- bounds
\* total number of row indices a run may assign (caps _ix_last)
MaxIx == 3
\* largest batch handed to a direct submit_data call
MaxBatch == 2
\* largest evaluator capacity (Evaluator.max_workers) considered
MaxWorkers == 2
\* largest number of rows of a table given to get_training_data
MaxRows == 2
\* largest number of dimensions of a rectilinear domain
MaxDim == 2
\* largest coordinate of a bound of a rectilinear domain
MaxCoord == 2

\* the value of the input column of the k-th candidate of a run: candidates
\* are pairwise distinct, so a row is recognised by its inputs
Sample(k) == "x" \o ToString(k)
\* the value of the output column the evaluated function gives for inputs x
evaluate(x) == "f(" \o x \o ")"
\* a missing cell of a pandas table
NaN == "NaN"
\* what traceback.format_exc() returns inside an except block
Traceback == "Traceback (most recent call last)"

VARIABLES
    generator,             \* Xopt._generator is not None
    evaluator,             \* Xopt._evaluator is not None
    vocs,                  \* Xopt._vocs is not None
    asynch,                \* options.asynch
    strict,                \* options.strict
    timeout,               \* options.timeout is not None
    max_workers,           \* evaluator.max_workers
    _data,                 \* observation table: sequence of rows
    data_None,             \* _data is None
    _new_data,             \* most recent merge batch
    _futures,              \* keys of the handle map, in dict (insertion) order
    _input_data,           \* pending-input table: sequence of [ix, x]
    input_data_None,       \* _input_data is None
    _ix_last,              \* index of last sample generated
    _is_done,
    n_unfinished_futures,
    handle,                \* the evaluator's handles, by row index
    pc,                    \* position of the control thread
    caller,                \* the operation called last
    n_generate,            \* step(): number of candidates requested
    finished_futures,      \* process_futures(): done set returned by wait
    unfinished_futures,    \* process_futures(): not_done set returned by wait
    timed_out,             \* the last wait returned because of its timeout
    raised,                \* exception that ended the last operation
    add_data_rows,         \* rows given to generator.add_data, in call order
    run_pc,                \* position of run(): not called, in its loop, returned
    data,                  \* get_training_data: the data frame, columns and rows
    outcome_name,          \* get_training_data: the outcome asked for
    train_X,               \* get_training_data: returned tensors, as row tuples
    train_Y,
    train_Yvar,            \* [None |-> train_Yvar is None, rows |-> its rows]
    training_pc,           \* get_training_data: not used, called, returned
    covar_modules,         \* model_constructor.covar_modules: output name -> kernel
    options,               \* the document made of generator.json()
    test_yml,              \* content of the file test.yml, a sequence of pairs
    saved_options,         \* the document read back from test.yml
    files,                 \* the .pt files of the working directory: path -> kernel
    loaded_covar_modules,  \* covar_modules of the generator made by parse_raw
    saving_pc,             \* position in saving and loading a generator
    A,                     \* rectilinear_domain_union: bounds <<lower, upper>>
    B,                     \* rectilinear_domain_union: bounds <<lower, upper>>
    out_bounds,            \* rectilinear_domain_union: the bounds returned
    domain_pc              \* rectilinear_domain_union: not used, called, returned

config == <<generator, evaluator, vocs, asynch, strict, timeout, max_workers>>
tables == <<_data, data_None, _new_data, _futures, _input_data, input_data_None>>
training == <<data, outcome_name, train_X, train_Y, train_Yvar, training_pc>>
saving == <<covar_modules, options, test_yml, saved_options, files,
            loaded_covar_modules, saving_pc>>
domains == <<A, B, out_bounds, domain_pc>>
orchestrator == <<config, run_pc, tables, add_data_rows, _ix_last, _is_done,
                  n_unfinished_futures, handle, pc, caller, n_generate,
                  finished_futures, unfinished_futures, timed_out, raised>>
locals == <<n_generate, finished_futures, unfinished_futures, timed_out>>
vars == <<generator, evaluator, vocs, asynch, strict, timeout, max_workers,
          _data, data_None, _new_data, _futures, _input_data, input_data_None,
          _ix_last, _is_done, n_unfinished_futures, handle, pc, caller,
          n_generate, finished_futures, unfinished_futures, timed_out, raised,
          add_data_rows, run_pc,
          data, outcome_name, train_X, train_Y, train_Yvar, training_pc,
          covar_modules, options, test_yml, saved_options, files,
          loaded_covar_modules, saving_pc, A, B, out_bounds, domain_pc>>

\* ---------------------------------------------------------------- helpers
Range(s) == {s[i] : i \in 1..Len(s)}

Indices == 0..(MaxIx - 1)

\* row labels of a table
Index(table) == {table[i].ix : i \in 1..Len(table)}

\* Loc taking the first row of the table whatever the label asked for
Loc_first(table, ix) == table[1]

\* table.loc[ix]
Loc(table, ix) == CHOOSE r \in Range(table) : r.ix = ix

\* a handle of the evaluator: the inputs it evaluates, its state, its result
NoHandle == [state |-> "none", inputs |-> NaN, result |-> NaN]
Running(x) == [state |-> "running", inputs |-> x, result |-> NaN]
Finished(f) == [f EXCEPT !.state = "finished", !.result = evaluate(f.inputs)]
Failed(f) == [f EXCEPT !.state = "failed"]

\* Future.done()
done(f) == f.state \in {"finished", "failed"}

\* Future.exception() is not None
exception(f) == f.state = "failed"

\* ---------------------------------------------------------------- pure parts
\* Xopt.__init__: return_when chosen from options.asynch
return_when == IF asynch THEN "FIRST_COMPLETED" ELSE "ALL_COMPLETED"

\* check_components without the test of the VOCS
check_components_no_vocs ==
    IF ~generator THEN "XoptError"
    ELSE IF ~evaluator THEN "XoptError"
    ELSE "ok"

\* Xopt.check_components: the error raised, or "ok"
check_components ==
    IF ~generator THEN "XoptError"
    ELSE IF ~evaluator THEN "XoptError"
    ELSE IF ~vocs THEN "XoptError"
    ELSE "ok"

\* NGenerate asking for the whole capacity in both modes
NGenerate_capacity == max_workers

\* NGenerate from the size of the handle map instead of the recorded count
NGenerate_in_flight ==
    IF asynch THEN max_workers - Len(_futures) ELSE max_workers

\* step(): number of candidates to generate
NGenerate ==
    IF asynch THEN max_workers - n_unfinished_futures ELSE max_workers

\* n fresh candidates, the first being the k-th of the run
Candidates(k, n) == [i \in 1..n |-> Sample(k + i - 1)]

\* generator.generate(n): the batches a generator may return; a negative
\* count makes the sampler raise, which is the empty set here
generate(n) == IF n < 0 THEN {} ELSE {Candidates(_ix_last + 1, n)}

\* Reindex with the range started at _ix_last instead of _ix_last + 1
Reindex_from_last(batch) ==
    [i \in 1..Len(batch) |-> [ix |-> _ix_last + i - 1, x |-> batch[i]]]

\* submit_data(): the copy of the batch, reindexed from _ix_last + 1
Reindex(batch) ==
    [i \in 1..Len(batch) |-> [ix |-> _ix_last + i, x |-> batch[i]]]

\* ix_done without the test of future.done()
ix_done_all == _futures

\* update_data(): ix_done, in the order of the handle map
ix_done == SelectSeq(_futures, LAMBDA ix : done(handle[ix]))

\* outputs with the failure recorded without its trace
outputs_no_trace(f) ==
    IF f.state = "finished"
    THEN [y |-> f.result, xopt_error |-> FALSE, xopt_error_str |-> ""]
    ELSE [y |-> NaN, xopt_error |-> TRUE, xopt_error_str |-> ""]

\* update_data(): the outputs recorded for one done handle
outputs(f) ==
    IF f.state = "finished"
    THEN [y |-> f.result, xopt_error |-> FALSE, xopt_error_str |-> ""]
    ELSE [y |-> NaN, xopt_error |-> TRUE, xopt_error_str |-> Traceback]

\* new_data with the done inputs taken by position instead of by label
new_data_by_position ==
    [i \in 1..Len(ix_done) |->
        LET ix == ix_done[i]
            o == outputs(handle[ix])
        IN [ix |-> ix, x |-> _input_data[i].x, y |-> o.y,
            xopt_error |-> o.xopt_error, xopt_error_str |-> o.xopt_error_str]]

\* update_data(): new_data, the done inputs joined with their outputs
new_data ==
    [i \in 1..Len(ix_done) |->
        LET ix == ix_done[i]
            o == outputs(handle[ix])
        IN [ix |-> ix, x |-> Loc(_input_data, ix).x, y |-> o.y,
            xopt_error |-> o.xopt_error, xopt_error_str |-> o.xopt_error_str]]

\* DataFrame.drop(ix_done)
Drop(table, ixs) == SelectSeq(table, LAMBDA r : r.ix \notin ixs)

\* WaitSatisfied of a wait that does not block for a first completion
WaitSatisfied_no_block ==
    LET fs == Range(_futures)
        dn == {ix \in fs : done(handle[ix])}
    IN IF return_when = "FIRST_COMPLETED" THEN TRUE
       ELSE dn = fs

\* concurrent.futures.wait: the condition that ends the wait before its timeout
WaitSatisfied ==
    LET fs == Range(_futures)
        dn == {ix \in fs : done(handle[ix])}
    IN IF return_when = "FIRST_COMPLETED" /\ dn # {} THEN TRUE
       ELSE dn = fs

\* ---------------------------------------------------------------- bodies
\* submit_data assigning the new handles to the handle map instead of
\* updating the map with them
submit_data_assigns_map(batch, ok) ==
    /\ _ix_last' = _ix_last + Len(batch)
    /\ _input_data' = _input_data \o Reindex(batch)
    /\ input_data_None' = FALSE
    /\ IF ok
       THEN /\ _futures' = [i \in 1..Len(batch) |-> _ix_last + i]
            /\ handle' = [ix \in Indices |->
                            IF ix \in (_ix_last + 1)..(_ix_last + Len(batch))
                            THEN Running(batch[ix - _ix_last])
                            ELSE handle[ix]]
       ELSE UNCHANGED <<_futures, handle>>

\* Xopt.submit_data(batch); ok = the evaluator's submit_data returned
submit_data(batch, ok) ==
    /\ _ix_last' = _ix_last + Len(batch)
    /\ _input_data' = _input_data \o Reindex(batch)
    /\ input_data_None' = FALSE
    /\ IF ok
       THEN /\ _futures' = _futures \o [i \in 1..Len(batch) |-> _ix_last + i]
            /\ handle' = [ix \in Indices |->
                            IF ix \in (_ix_last + 1)..(_ix_last + Len(batch))
                            THEN Running(batch[ix - _ix_last])
                            ELSE handle[ix]]
       ELSE UNCHANGED <<_futures, handle>>

\* the call generator.add_data(batch), by what it is given
add_data(batch) == add_data_rows' = add_data_rows \o batch

\* update_data with the new batch concatenated in front of the table
update_data_prepend(ok) ==
    /\ _futures' = SelectSeq(_futures, LAMBDA ix : ix \notin Range(ix_done))
    /\ _data' = new_data \o _data
    /\ data_None' = FALSE
    /\ _new_data' = new_data
    /\ IF generator THEN add_data(new_data) ELSE UNCHANGED add_data_rows
    /\ IF ok
       THEN _input_data' = Drop(_input_data, Range(ix_done))
       ELSE UNCHANGED _input_data
    /\ UNCHANGED input_data_None

\* update_data giving the generator the whole observation table
update_data_whole_table(ok) ==
    /\ _futures' = SelectSeq(_futures, LAMBDA ix : ix \notin Range(ix_done))
    /\ _data' = _data \o new_data
    /\ data_None' = FALSE
    /\ _new_data' = new_data
    /\ IF generator THEN add_data(_data \o new_data)
       ELSE UNCHANGED add_data_rows
    /\ IF ok
       THEN _input_data' = Drop(_input_data, Range(ix_done))
       ELSE UNCHANGED _input_data
    /\ UNCHANGED input_data_None

\* Xopt.update_data(); ok = generator.add_data returned
update_data(ok) ==
    /\ _futures' = SelectSeq(_futures, LAMBDA ix : ix \notin Range(ix_done))
    /\ _data' = _data \o new_data
    /\ data_None' = FALSE
    /\ _new_data' = new_data
    /\ IF generator THEN add_data(new_data) ELSE UNCHANGED add_data_rows
    /\ IF ok
       THEN _input_data' = Drop(_input_data, Range(ix_done))
       ELSE UNCHANGED _input_data
    /\ UNCHANGED input_data_None

\* ---------------------------------------------------------------- state
\* Xopt.__init__: the collaborators given, all of them or all but one
Components ==
    {<<TRUE, TRUE, TRUE>>, <<FALSE, TRUE, TRUE>>, <<TRUE, FALSE, TRUE>>,
     <<TRUE, TRUE, FALSE>>}

\* Xopt.__init__: the orchestrator after construction
Constructed ==
    /\ \E c \in Components : generator = c[1] /\ evaluator = c[2] /\ vocs = c[3]
    /\ asynch \in BOOLEAN
    /\ strict \in BOOLEAN
    /\ timeout \in BOOLEAN
    /\ max_workers \in 1..MaxWorkers
    /\ _data = <<>>
    /\ data_None = TRUE
    /\ _new_data = <<>>
    /\ _futures = <<>>
    /\ _input_data = <<>>
    /\ input_data_None = TRUE
    /\ _ix_last = -1
    /\ _is_done = FALSE
    /\ n_unfinished_futures = 0
    /\ handle = [ix \in Indices |-> NoHandle]
    /\ pc = "idle"
    /\ caller = "none"
    /\ n_generate = 0
    /\ finished_futures = {}
    /\ unfinished_futures = {}
    /\ timed_out = FALSE
    /\ raised = "none"
    /\ add_data_rows = <<>>
    /\ run_pc = "none"

\* no call of get_training_data
NoTraining ==
    /\ data = [columns |-> {}, rows |-> <<>>]
    /\ outcome_name = ""
    /\ train_X = <<>>
    /\ train_Y = <<>>
    /\ train_Yvar = [None |-> TRUE, rows |-> <<>>]
    /\ training_pc = "none"

\* the empty mapping of names
NoNames == [name \in {} |-> ""]

\* no generator is saved or loaded
NoSaving ==
    /\ covar_modules = NoNames
    /\ options = NoNames
    /\ test_yml = <<>>
    /\ saved_options = NoNames
    /\ files = NoNames
    /\ loaded_covar_modules = NoNames
    /\ saving_pc = "none"

\* no call of rectilinear_domain_union
NoDomains ==
    /\ A = <<>>
    /\ B = <<>>
    /\ out_bounds = <<>>
    /\ domain_pc = "none"

Init == Constructed /\ NoTraining /\ NoSaving /\ NoDomains

\* ---------------------------------------------------------------- actions
\* a handle resolves, with an output row or with a failure
Complete(ix, ok) ==
    /\ handle[ix].state = "running"
    /\ handle' = [handle EXCEPT
                    ![ix] = IF ok THEN Finished(handle[ix]) ELSE Failed(handle[ix])]
    /\ UNCHANGED <<config, training, saving, domains, run_pc, tables, add_data_rows, _ix_last, _is_done, n_unfinished_futures,
                   pc, locals, raised>>
    /\ UNCHANGED caller

\* step(): check_components raises
StepConfigError ==
    /\ pc = "idle"
    /\ check_components # "ok"
    /\ raised' = check_components
    /\ n_generate' = 0
    /\ timed_out' = FALSE
    /\ UNCHANGED <<config, training, saving, domains, run_pc, tables, add_data_rows, _ix_last, _is_done, n_unfinished_futures,
                   handle, pc, finished_futures, unfinished_futures>>
    /\ caller' = "step"

\* step(): generator.generate raises
StepGenerateError ==
    /\ pc = "idle"
    /\ check_components = "ok"
    /\ generate(NGenerate) = {}
    /\ n_generate' = NGenerate
    /\ raised' = "GeneratorError"
    /\ timed_out' = FALSE
    /\ UNCHANGED <<config, training, saving, domains, run_pc, tables, add_data_rows, _ix_last, _is_done, n_unfinished_futures,
                   handle, pc, finished_futures, unfinished_futures>>
    /\ caller' = "step"

\* step() up to the wait: check, generate, submit_data
StepSubmit(batch, ok) ==
    /\ pc = "idle"
    /\ check_components = "ok"
    /\ batch \in generate(NGenerate)
    /\ _ix_last + Len(batch) < MaxIx
    /\ n_generate' = NGenerate
    /\ submit_data(batch, ok)
    /\ pc' = IF ok THEN "waiting" ELSE "idle"
    /\ raised' = IF ok THEN "none" ELSE "EvaluatorError"
    /\ timed_out' = FALSE
    /\ UNCHANGED <<config, training, saving, domains, run_pc, _data, data_None, _new_data, add_data_rows, _is_done,
                   n_unfinished_futures, finished_futures, unfinished_futures>>
    /\ caller' = "step"

\* a direct call of submit_data
SubmitData(batch, ok) ==
    /\ pc = "idle"
    /\ _ix_last + Len(batch) < MaxIx
    /\ evaluator \/ ~ok
    /\ submit_data(batch, ok)
    /\ raised' = IF ok THEN "none"
                 ELSE IF evaluator THEN "EvaluatorError" ELSE "AttributeError"
    /\ n_generate' = 0
    /\ timed_out' = FALSE
    /\ UNCHANGED <<config, training, saving, domains, run_pc, _data, data_None, _new_data, add_data_rows, _is_done,
                   n_unfinished_futures, pc, finished_futures,
                   unfinished_futures>>
    /\ caller' = "submit_data"

\* process_futures(): concurrent.futures.wait returns
Wait ==
    /\ pc = "waiting"
    /\ WaitSatisfied \/ timeout
    /\ timed_out' = ~WaitSatisfied
    /\ finished_futures' = {ix \in Range(_futures) : done(handle[ix])}
    /\ unfinished_futures' = {ix \in Range(_futures) : ~done(handle[ix])}
    /\ pc' = "merging"
    /\ UNCHANGED <<config, training, saving, domains, run_pc, tables, add_data_rows, _ix_last, _is_done, n_unfinished_futures,
                   handle, n_generate, raised>>
    /\ UNCHANGED caller

\* the strict check of process_futures placed after the merge instead of
\* before it
MergeStrictRaise_after_update ==
    /\ pc = "merging"
    /\ strict
    /\ \E ix \in finished_futures : exception(handle[ix])
    /\ update_data(TRUE)
    /\ pc' = "idle"
    /\ raised' = "StrictError"
    /\ n_generate' = 0
    /\ finished_futures' = {}
    /\ unfinished_futures' = {}
    /\ UNCHANGED <<config, training, saving, domains, run_pc, _ix_last,
                   _is_done, n_unfinished_futures, handle, timed_out>>
    /\ UNCHANGED caller

\* process_futures(): strict mode re-raises the failure of a finished handle
MergeStrictRaise ==
    /\ pc = "merging"
    /\ strict
    /\ \E ix \in finished_futures : exception(handle[ix])
    /\ pc' = "idle"
    /\ raised' = "StrictError"
    /\ n_generate' = 0
    /\ finished_futures' = {}
    /\ unfinished_futures' = {}
    /\ UNCHANGED <<config, training, saving, domains, run_pc, tables, add_data_rows, _ix_last, _is_done, n_unfinished_futures,
                   handle, timed_out>>
    /\ UNCHANGED caller

\* process_futures() after the wait: update_data, then step() records the
\* number of unfinished handles
Merge(ok) ==
    /\ pc = "merging"
    /\ ~(strict /\ \E ix \in finished_futures : exception(handle[ix]))
    /\ update_data(ok)
    /\ n_unfinished_futures' =
           IF ok THEN Cardinality(unfinished_futures) ELSE n_unfinished_futures
    /\ pc' = "idle"
    /\ raised' = IF ok THEN "none" ELSE "GeneratorError"
    /\ n_generate' = 0
    /\ finished_futures' = {}
    /\ unfinished_futures' = {}
    /\ UNCHANGED <<config, training, saving, domains, run_pc, _ix_last, _is_done, handle, timed_out>>
    /\ UNCHANGED caller

\* a direct call of update_data
UpdateData(ok) ==
    /\ pc = "idle"
    /\ ~input_data_None
    /\ generator \/ ~ok
    /\ update_data(ok)
    /\ raised' = IF ok THEN "none"
                 ELSE IF generator THEN "GeneratorError" ELSE "AttributeError"
    /\ n_generate' = 0
    /\ timed_out' = FALSE
    /\ UNCHANGED <<config, training, saving, domains, run_pc, _ix_last, _is_done, n_unfinished_futures, handle,
                   pc, finished_futures, unfinished_futures>>
    /\ caller' = "update_data"

\* a direct call of update_data before any submission
UpdateDataNoInputData ==
    /\ pc = "idle"
    /\ input_data_None
    /\ raised' = "AttributeError"
    /\ n_generate' = 0
    /\ timed_out' = FALSE
    /\ UNCHANGED <<config, training, saving, domains, run_pc, tables, add_data_rows, _ix_last, _is_done, n_unfinished_futures,
                   handle, pc, finished_futures, unfinished_futures>>
    /\ caller' = "update_data"

\* the batches a caller hands to submit_data
Batches == {Candidates(_ix_last + 1, n) : n \in 0..MaxBatch}

Next ==
    \/ \E ix \in Indices, ok \in BOOLEAN : Complete(ix, ok)
    \/ StepConfigError
    \/ StepGenerateError
    \/ \E batch \in generate(NGenerate), ok \in BOOLEAN : StepSubmit(batch, ok)
    \/ \E batch \in Batches, ok \in BOOLEAN : SubmitData(batch, ok)
    \/ Wait
    \/ MergeStrictRaise
    \/ \E ok \in BOOLEAN : Merge(ok)
    \/ \E ok \in BOOLEAN : UpdateData(ok)
    \/ UpdateDataNoInputData

Spec == Init /\ [][Next]_vars

\* ------------------------------------------------------------------ run()
\* a loop condition that does not read the done flag
run_condition_always == TRUE

\* run(): the condition of the while loop
run_condition == ~_is_done

\* run() is at the test of its loop: called, and no step() of it has raised
RunAtTest == run_pc = "loop" /\ pc = "idle" /\ raised = "none"

\* run() is called
RunCall ==
    /\ run_pc = "none"
    /\ pc = "idle"
    /\ run_pc' = "loop"
    /\ raised' = "none"
    /\ n_generate' = 0
    /\ timed_out' = FALSE
    /\ UNCHANGED <<config, training, saving, domains, tables, add_data_rows, _ix_last, _is_done,
                   n_unfinished_futures, handle, pc, finished_futures,
                   unfinished_futures>>
    /\ caller' = "run"

\* run(): the loop condition holds and step() is called
RunStep ==
    /\ RunAtTest
    /\ run_condition
    /\ \/ StepConfigError
       \/ StepGenerateError
       \/ \E batch \in generate(NGenerate), ok \in BOOLEAN :
              StepSubmit(batch, ok)

\* run(): the loop condition fails and run() returns
RunReturn ==
    /\ RunAtTest
    /\ ~run_condition
    /\ run_pc' = "returned"
    /\ UNCHANGED <<config, training, saving, domains, tables, add_data_rows, _ix_last, _is_done,
                   n_unfinished_futures, handle, pc, locals, raised, caller>>

\* code outside the orchestrator sets the done flag
SetDone ==
    /\ ~_is_done
    /\ _is_done' = TRUE
    /\ UNCHANGED <<config, training, saving, domains, run_pc, tables, add_data_rows, _ix_last,
                   n_unfinished_futures, handle, pc, locals, raised, caller>>

\* run() on an orchestrator that may have been given rows directly before
NextRun ==
    \/ \E ix \in Indices, ok \in BOOLEAN : Complete(ix, ok)
    \/ \E batch \in Batches, ok \in BOOLEAN :
           run_pc = "none" /\ SubmitData(batch, ok)
    \/ RunCall
    \/ RunStep
    \/ Wait
    \/ MergeStrictRaise
    \/ \E ok \in BOOLEAN : Merge(ok)
    \/ RunReturn
    \/ SetDone

SpecRun == Init /\ [][NextRun]_vars

\* ------------------------------------------------------- steps only
\* step() is called, by a caller that stops at the first exception
StepOnly ==
    /\ raised = "none"
    /\ \/ StepConfigError
       \/ \E batch \in generate(NGenerate), ok \in BOOLEAN :
              StepSubmit(batch, ok)

\* an orchestrator driven by step() alone, until a step raises
NextSteps ==
    \/ \E ix \in Indices, ok \in BOOLEAN : Complete(ix, ok)
    \/ StepOnly
    \/ Wait
    \/ MergeStrictRaise
    \/ \E ok \in BOOLEAN : Merge(ok)

SpecSteps == Init /\ [][NextSteps]_vars

\* ------------------------------------------------- get_training_data
\* the input columns and the outcome columns of the data frames
input_names == <<"x1", "x2">>
outcome_names == {"y1", "y2"}

\* the value of column c in row i when it is not missing
Cell(c, i) == c \o "_" \o ToString(i)

\* the data frame with the given columns and n rows whose missing cells are
\* those of the pattern m
Frame(columns, n, m) ==
    [columns |-> columns,
     rows |-> [i \in 1..n |->
                 [c \in columns |-> IF c \in m[i] THEN NaN ELSE Cell(c, i)]]]

\* the columns of the data frames: inputs and outcomes, with or without a
\* variance column for y1
ColumnSets ==
    {Range(input_names) \cup outcome_names,
     Range(input_names) \cup outcome_names \cup {"y1_var"}}

\* pandas isnull of a cell
isnull(v) == v = NaN

\* table[names]: the rows of a table reduced to some columns
Columns(rows, names) ==
    [i \in 1..Len(rows) |-> [c \in names |-> rows[i][c]]]

\* table[mask]: boolean indexing, the rows whose mask is True, in order
Mask(rows, mask) ==
    LET kept == SelectSeq([i \in 1..Len(rows) |-> i], LAMBDA i : mask[i])
    IN [k \in 1..Len(kept) |-> rows[kept[k]]]

\* non_nans computed with all() in place of any()
non_nans_all(input_data) ==
    [i \in 1..Len(input_data) |->
        ~(\A c \in DOMAIN input_data[i] : isnull(input_data[i][c]))]

\* ~input_data.isnull().T.any(): the rows without a missing input
non_nans(input_data) ==
    [i \in 1..Len(input_data) |->
        ~(\E c \in DOMAIN input_data[i] : isnull(input_data[i][c]))]

\* torch.tensor(frame.to_numpy()): one tuple per row, columns in given order
Tensor(rows, names) ==
    [i \in 1..Len(rows) |-> [k \in 1..Len(names) |-> rows[i][names[k]]]]

\* get_training_data(input_names, outcome_name, data)
get_training_data(names, outcome, frame) ==
    LET input_data == Columns(frame.rows, Range(names))
        outcome_data == Columns(frame.rows, {outcome})
        nn == non_nans(input_data)
        input_data2 == Mask(input_data, nn)
        outcome_data2 == Mask(outcome_data, nn)
        not_null == [i \in 1..Len(outcome_data2) |->
                        ~isnull(outcome_data2[i][outcome])]
        var == outcome \o "_var"
    IN [train_X |-> Tensor(Mask(input_data2, not_null), names),
        train_Y |-> Tensor(Mask(outcome_data2, not_null), <<outcome>>),
        train_Yvar |->
            IF var \in frame.columns
            THEN [None |-> FALSE,
                  rows |-> Tensor(Mask(Mask(Columns(frame.rows, {var}), nn),
                                       not_null), <<var>>)]
            ELSE [None |-> TRUE, rows |-> <<>>]]

\* a generator of a configured orchestrator is about to call
\* get_training_data on some data frame for some outcome
InitTraining ==
    /\ Constructed
    /\ generator /\ evaluator /\ vocs
    /\ ~asynch /\ ~strict /\ ~timeout /\ max_workers = 1
    /\ \E columns \in ColumnSets, n \in 0..MaxRows :
          \E m \in [1..n -> SUBSET columns] : data = Frame(columns, n, m)
    /\ outcome_name \in outcome_names
    /\ train_X = <<>>
    /\ train_Y = <<>>
    /\ train_Yvar = [None |-> TRUE, rows |-> <<>>]
    /\ training_pc = "called"
    /\ NoSaving
    /\ NoDomains

\* the call of get_training_data returns
GetTrainingData ==
    /\ training_pc = "called"
    /\ LET r == get_training_data(input_names, outcome_name, data)
       IN /\ train_X' = r.train_X
          /\ train_Y' = r.train_Y
          /\ train_Yvar' = r.train_Yvar
    /\ training_pc' = "returned"
    /\ UNCHANGED <<data, outcome_name, saving, domains>>
    /\ UNCHANGED <<config, run_pc, tables, add_data_rows, _ix_last, _is_done,
                   n_unfinished_futures, handle, pc, locals, raised, caller>>

NextTraining == GetTrainingData

SpecTraining == InitTraining /\ [][NextTraining]_vars

\* ------------------------------------------ saving and loading a generator
\* the outputs of the vocs of the saved generator, in the key order of yaml.dump
output_names == <<"c", "y">>

\* the kernels given as custom covariance modules
Kernels == {"ScaleKernel", "PeriodicKernel", "PolynomialKernel"}

\* the mappings of some of the names to kernels
Modules(names) == UNION {[some -> Kernels] : some \in SUBSET names}

\* one file for the custom covariance modules of all outputs
Path_shared(name) == "covar_modules.pt"

\* the file a custom covariance module is saved to
Path(name) == "covar_modules_" \o name \o ".pt"

\* torch.save of each module of a mapping, over what the directory holds
Saved(dir, modules) ==
    LET saved == {Path(name) : name \in DOMAIN modules}
    IN [path \in DOMAIN dir \cup saved |->
           IF path \in saved
           THEN modules[CHOOSE name \in DOMAIN modules : Path(name) = path]
           ELSE dir[path]]

\* generator.json(): the modules go to files, the document holds their paths
json(modules) == [name \in DOMAIN modules |-> Path(name)]

\* yaml.dump of a document: its pairs, keys sorted
dump(document) ==
    LET keys == SelectSeq(output_names, LAMBDA name : name \in DOMAIN document)
    IN [k \in 1..Len(keys) |-> <<keys[k], document[keys[k]]>>]

\* yaml.safe_load of the text of a document
safe_load(text) ==
    [name \in {text[k][1] : k \in 1..Len(text)} |->
        (CHOOSE pair \in Range(text) : pair[1] = name)[2]]

\* parse_raw: torch.load of the file each path of the document names
parse_raw(document, dir) == [name \in DOMAIN document |-> dir[document[name]]]

\* a generator with custom covariance modules for some outputs, in a working
\* directory that may hold module files of earlier generators
InitSaving ==
    /\ Constructed
    /\ generator /\ evaluator /\ vocs
    /\ ~asynch /\ ~strict /\ ~timeout /\ max_workers = 1
    /\ NoTraining
    /\ NoDomains
    /\ covar_modules \in Modules(Range(output_names))
    /\ \E earlier \in Modules(Range(output_names)) :
          files = Saved(NoNames, earlier)
    /\ options = NoNames
    /\ test_yml = <<>>
    /\ saved_options = NoNames
    /\ loaded_covar_modules = NoNames
    /\ saving_pc = "constructed"

\* options = json.loads(generator.json())
Json ==
    /\ saving_pc = "constructed"
    /\ options' = json(covar_modules)
    /\ files' = Saved(files, covar_modules)
    /\ saving_pc' = "serialized"
    /\ UNCHANGED <<covar_modules, test_yml, saved_options, loaded_covar_modules>>
    /\ UNCHANGED <<orchestrator, training, domains>>

\* yaml.dump(options, f) into test.yml
YamlDump ==
    /\ saving_pc = "serialized"
    /\ test_yml' = dump(options)
    /\ saving_pc' = "dumped"
    /\ UNCHANGED <<covar_modules, options, saved_options, files,
                   loaded_covar_modules>>
    /\ UNCHANGED <<orchestrator, training, domains>>

\* saved_options = yaml.safe_load(f) from test.yml
YamlSafeLoad ==
    /\ saving_pc = "dumped"
    /\ saved_options' = safe_load(test_yml)
    /\ saving_pc' = "read"
    /\ UNCHANGED <<covar_modules, options, test_yml, files,
                   loaded_covar_modules>>
    /\ UNCHANGED <<orchestrator, training, domains>>

\* loaded_generator = ExpectedImprovementGenerator.parse_raw(...)
ParseRaw ==
    /\ saving_pc = "read"
    /\ \A name \in DOMAIN saved_options : saved_options[name] \in DOMAIN files
    /\ loaded_covar_modules' = parse_raw(saved_options, files)
    /\ saving_pc' = "loaded"
    /\ UNCHANGED <<covar_modules, options, test_yml, saved_options, files>>
    /\ UNCHANGED <<orchestrator, training, domains>>

\* clean up: os.remove of test.yml and of the file of each saved module
CleanUp ==
    /\ saving_pc = "loaded"
    /\ test_yml' = <<>>
    /\ files' = [path \in DOMAIN files \ {options[name] : name \in DOMAIN options}
                   |-> files[path]]
    /\ saving_pc' = "cleaned"
    /\ UNCHANGED <<covar_modules, options, saved_options, loaded_covar_modules>>
    /\ UNCHANGED <<orchestrator, training, domains>>

NextSaving ==
    \/ Json
    \/ YamlDump
    \/ YamlSafeLoad
    \/ ParseRaw
    \/ CleanUp

SpecSaving == InitSaving /\ [][NextSaving]_vars

\* ------------------------------------------------ rectilinear_domain_union
\* torch.max of two rows, element by element
torch_max(x, y) == [d \in 1..Len(x) |-> IF x[d] >= y[d] THEN x[d] ELSE y[d]]

\* torch.min of two rows, element by element
torch_min(x, y) == [d \in 1..Len(x) |-> IF x[d] <= y[d] THEN x[d] ELSE y[d]]

\* torch.clone: a new tensor with the same entries
clone(t) == [r \in 1..Len(t) |-> [d \in 1..Len(t[r]) |-> t[r][d]]]

\* the shape of a tensor of bounds
shape(t) == <<Len(t), Len(t[1])>>

\* rectilinear_domain_union(A, B), for bounds that pass its assertions
rectilinear_domain_union(a, b) ==
    LET cloned == clone(a)
        lower == [cloned EXCEPT ![1] = torch_max(a[1], b[1])]
    IN [lower EXCEPT ![2] = torch_min(a[2], b[2])]

\* bounds of shape (2, n) are given: lower bounds, then upper bounds
IsBounds(t, n) ==
    \E lo \in [1..n -> 0..MaxCoord], up \in [1..n -> 0..MaxCoord] :
        /\ \A d \in 1..n : lo[d] <= up[d]
        /\ t = <<lo, up>>

\* rectilinear_domain_union is about to be called on two domains
InitDomains ==
    /\ Constructed
    /\ generator /\ evaluator /\ vocs
    /\ ~asynch /\ ~strict /\ ~timeout /\ max_workers = 1
    /\ NoTraining
    /\ NoSaving
    /\ \E n \in 1..MaxDim : IsBounds(A, n)
    /\ \E n \in 1..MaxDim : IsBounds(B, n)
    /\ out_bounds = <<>>
    /\ domain_pc = "called"

\* the call fails on the assertion that the shapes are the same
RectilinearDomainUnionAssertionError ==
    /\ domain_pc = "called"
    /\ shape(A) # shape(B)
    /\ domain_pc' = "raised"
    /\ UNCHANGED <<A, B, out_bounds>>
    /\ UNCHANGED <<orchestrator, training, saving>>

\* the call returns
RectilinearDomainUnion ==
    /\ domain_pc = "called"
    /\ shape(A) = <<2, Len(A[1])>>
    /\ shape(A) = shape(B)
    /\ out_bounds' = rectilinear_domain_union(A, B)
    /\ domain_pc' = "returned"
    /\ UNCHANGED <<A, B>>
    /\ UNCHANGED <<orchestrator, training, saving>>

NextDomains ==
    \/ RectilinearDomainUnionAssertionError
    \/ RectilinearDomainUnion

SpecDomains == InitDomains /\ [][NextDomains]_vars

\* ---------------------------------------------------------------- claims
\* no row label occurs twice in a table
NoDuplicates(table) ==
    \A i, j \in 1..Len(table) : i # j => table[i].ix # table[j].ix

\* generator, evaluator and VOCS were all given to the constructor
Configured == generator /\ evaluator /\ vocs

\* C1: in every reachable state of a configured orchestrator, also one left
\* behind by a call that aborted, the row indices of the pending-input table
\* are the keys of the handle map.
C1_PendingKeysEqualHandleKeys ==
    Configured => Index(_input_data) = Range(_futures)

\* C2: between calls on a configured orchestrator, the indices of the
\* pending-input table and those of the observation table are disjoint,
\* without duplicates, and together they are exactly 0 .. _ix_last.
C2_TablesPartitionAssignedIndices ==
    Configured /\ pc = "idle" =>
        /\ Index(_input_data) \cap Index(_data) = {}
        /\ Index(_input_data) \cup Index(_data) = 0.._ix_last
        /\ NoDuplicates(_input_data)
        /\ NoDuplicates(_data)

\* the rows a step from the unprimed to the primed state added to the
\* pending-input table
Submitted == SubSeq(_input_data', Len(_input_data) + 1, Len(_input_data'))

\* C3: the counter starts at -1 and never decreases; a submission of k rows
\* advances it by k and gives the rows, in batch order, the indices
\* _ix_last + 1 .. _ix_last + k; rows enter the pending table in no other way,
\* and no index is held by two rows, whatever became of earlier rows.
C3_IndicesSequentialNeverReused ==
    /\ _ix_last = -1
    /\ [][/\ _ix_last' >= _ix_last
          /\ Len(_input_data') > Len(_input_data) => _ix_last' > _ix_last
          /\ _ix_last' > _ix_last =>
                /\ _input_data' = _input_data \o Submitted
                /\ Len(Submitted) = _ix_last' - _ix_last
                /\ \A i \in 1..Len(Submitted) :
                       /\ Submitted[i].ix = _ix_last + i
                       /\ Submitted[i].x = Sample(_ix_last + i)]_vars
    /\ [](/\ NoDuplicates(_input_data)
          /\ Index(_input_data) \cup Index(_data) \subseteq 0.._ix_last)

\* C3 witness: a batch of two rows was indexed after an earlier row had failed
\* and been merged
C3_Witness ==
    /\ _ix_last = 2
    /\ \E r \in Range(_data) : r.ix = 0 /\ r.xopt_error
    /\ Index(_input_data) = {1, 2}
    /\ handle[1].state = "running"
    /\ handle[2].state = "running"

\* C4: the observation table only grows at its end, the rows already in it
\* keep their place and contents, and no index occurs twice in it.
C4_ObservationTableAppendOnly ==
    /\ [][/\ Len(_data') >= Len(_data)
          /\ SubSeq(_data', 1, Len(_data)) = _data]_vars
    /\ []NoDuplicates(_data)

\* C4 witness: three merge passes have each appended one row
C4_Witness ==
    /\ Len(_data) = 3
    /\ Len(_new_data) = 1
    /\ _data[1].ix > _data[2].ix

\* C5: a merged row of a failed handle has xopt_error set and a non-empty
\* xopt_error_str; a merged row of a successful handle has xopt_error cleared
\* and an empty xopt_error_str; no merged row lacks either column.
C5_ErrorColumnsMatchOutcome ==
    \A r \in Range(_data) :
        /\ r.xopt_error \in BOOLEAN
        /\ r.xopt_error_str # NaN
        /\ handle[r.ix].state \in {"finished", "failed"}
        /\ handle[r.ix].state = "failed" =>
               r.xopt_error = TRUE /\ r.xopt_error_str # ""
        /\ handle[r.ix].state = "finished" =>
               r.xopt_error = FALSE /\ r.xopt_error_str = ""

\* C5 witness: the table holds a row of a failed and a row of a successful
\* handle
C5_Witness ==
    /\ \E r \in Range(_data) : handle[r.ix].state = "failed"
    /\ \E r \in Range(_data) : handle[r.ix].state = "finished"

\* a handle resolves in the step from the unprimed to the primed state
HandleResolves ==
    \E ix \in Indices : handle[ix].state = "running" /\ done(handle'[ix])

\* the step from the unprimed to the primed state is a call of step()
StepCalled == pc = "idle" /\ caller' = "step" /\ ~HandleResolves

\* the step from the unprimed to the primed state is the merge pass of step()
StepMerges == pc = "merging" /\ pc' = "idle"

\* the rows a step from the unprimed to the primed state appended to the
\* observation table
Merged == SubSeq(_data', Len(_data) + 1, Len(_data'))

\* C6: in strict mode, a merge pass of step() that meets a completed handle
\* with a failure ends in the re-raised failure, and no merge pass of step()
\* appends a row with xopt_error set (merge passes in which the generator
\* raised are left aside).
C6_StrictStepNeverMergesFailure ==
    [][strict /\ StepMerges /\ raised' # "GeneratorError" =>
          /\ (\E ix \in Range(_futures) : exception(handle[ix])) =>
                 raised' = "StrictError"
          /\ \A r \in Range(Merged) : ~r.xopt_error]_vars

\* C7: without strict mode step() never ends in the failure of a handle; its
\* merge pass appends, for every handle that is done, exactly one row with the
\* inputs of that handle: xopt_error set, the trace and no output for a failed
\* handle, xopt_error cleared and the output for a successful one.  With
\* capacity 2 in synchronous mode, a first step whose wait did not time out
\* and whose two rows succeeded and failed leaves 2 rows and unfinished
\* count 0.
C7_NonStrictFailureBecomesErrorRow ==
    /\ [](~strict => raised # "StrictError")
    /\ [][~strict /\ StepMerges =>
            \A ix \in Range(_futures) : done(handle[ix]) =>
                /\ Cardinality({i \in 1..Len(_data') : _data'[i].ix = ix}) = 1
                /\ \E r \in Range(Merged) :
                      /\ r.ix = ix
                      /\ r.x = handle[ix].inputs
                      /\ exception(handle[ix]) =>
                            /\ r.xopt_error = TRUE
                            /\ r.xopt_error_str = Traceback
                            /\ r.y = NaN
                      /\ ~exception(handle[ix]) =>
                            /\ r.xopt_error = FALSE
                            /\ r.y = evaluate(handle[ix].inputs)]_vars
    /\ [][/\ ~strict /\ ~asynch /\ max_workers = 2
          /\ StepMerges /\ ~timed_out /\ raised' = "none"
          /\ _data = <<>> /\ _futures = <<0, 1>>
          /\ handle[0].state = "finished" /\ handle[1].state = "failed"
          => /\ Len(_data') = 2
             /\ ~_data'[1].xopt_error /\ _data'[1].y = evaluate(Sample(0))
             /\ _data'[2].xopt_error /\ _data'[2].xopt_error_str # ""
             /\ n_unfinished_futures' = 0]_vars

\* C7 witness: the state after the step of the scenario
C7_Witness ==
    /\ ~strict /\ ~asynch /\ max_workers = 2
    /\ pc = "idle" /\ caller = "step" /\ raised = "none" /\ ~timed_out
    /\ _ix_last = 1
    /\ Len(_data) = 2
    /\ ~_data[1].xopt_error /\ _data[2].xopt_error
    /\ n_unfinished_futures = 0

\* C8: a call of step() on an orchestrator that lacks its generator, its
\* evaluator or its VOCS ends in XoptError and changes nothing: nothing is
\* requested from the generator, no index is assigned, nothing is submitted or
\* waited on, and the tables and counters are as before.
C8_MissingComponentFailsFast ==
    [][StepCalled /\ ~Configured =>
          /\ raised' = "XoptError"
          /\ pc' = "idle"
          /\ n_generate' = 0
          /\ UNCHANGED <<_ix_last, _input_data, _futures, _data, _new_data,
                         n_unfinished_futures, handle>>]_vars

\* C8 witness: step() raised XoptError on an orchestrator without VOCS that
\* has a row in flight and a merged row
C8_Witness ==
    /\ ~vocs
    /\ caller = "step" /\ raised = "XoptError"
    /\ _futures # <<>>
    /\ _data # <<>>

\* C9: in synchronous mode without strict mode, when step() returns and its
\* wait did not time out, the unfinished count is 0, the handle map and the
\* pending table are empty, and every row that had a handle is in the
\* observation table.
C9_SynchronousStepLeavesNothingPending ==
    [][~asynch /\ ~strict /\ StepMerges /\ raised' = "none" /\ ~timed_out =>
          /\ n_unfinished_futures' = 0
          /\ _futures' = <<>>
          /\ _input_data' = <<>>
          /\ \A ix \in Indices :
                 handle[ix].state # "none" => ix \in Index(_data')]_vars

\* C10: a call of step() on a configured orchestrator requests max_workers
\* candidates in synchronous mode and max_workers minus the recorded
\* unfinished count in asynchronous mode; that many indices are assigned and
\* that many handles recorded; a request of zero assigns and submits nothing
\* and goes on to the wait.
C10_RequestSize ==
    [][StepCalled /\ Configured =>
          /\ n_generate' = IF asynch THEN max_workers - n_unfinished_futures
                           ELSE max_workers
          /\ n_generate' >= 0 =>
                /\ _ix_last' = _ix_last + n_generate'
                /\ raised' = "none" =>
                       /\ Len(_futures') = Len(_futures) + n_generate'
                       /\ pc' = "waiting"
          /\ n_generate' = 0 =>
                UNCHANGED <<_ix_last, _input_data, _futures, handle>>]_vars

\* C10 witness: an asynchronous step with every worker busy requested nothing
\* and is waiting
C10_Witness ==
    /\ asynch
    /\ pc = "waiting" /\ caller = "step"
    /\ n_generate = 0
    /\ n_unfinished_futures = max_workers
    /\ Len(_futures) > 0

\* the step from the unprimed to the primed state is the return of the wait
WaitReturns == pc = "waiting" /\ pc' = "merging"

\* C11: in asynchronous mode without a timeout and with a handle in flight,
\* the wait of step() returns only once a handle is done, the step that
\* returns has merged at least one row, and every handle that is not done
\* at the merge stays in the handle map, still running.
C11_AsynchronousStepWaitsForFirst ==
    /\ [][asynch /\ ~timeout /\ WaitReturns /\ _futures # <<>> =>
             /\ finished_futures' # {}
             /\ ~timed_out']_vars
    /\ [][asynch /\ ~timeout /\ StepMerges /\ raised' = "none"
          /\ _futures # <<>> =>
             /\ Len(Merged) >= 1
             /\ \A ix \in Range(_futures) : ~done(handle[ix]) =>
                    /\ ix \in Range(_futures')
                    /\ handle'[ix].state = "running"]_vars

\* C11 witness: an asynchronous step without timeout has returned with one row
\* merged while the other handle of its batch is still running
C11_Witness ==
    /\ asynch /\ ~timeout /\ max_workers = 2
    /\ pc = "idle" /\ caller = "step" /\ raised = "none"
    /\ _ix_last = 1
    /\ Len(_new_data) = 1
    /\ Len(_futures) = 1
    /\ handle[_futures[1]].state = "running"

\* the step from the unprimed to the primed state is the return of step()
StepReturns == StepMerges /\ raised' = "none"

\* C12: after every step() that returns, n_unfinished_futures is the number
\* of handles that remain in the handle map, whenever handles resolve.
C12_UnfinishedCountIsMapSize ==
    [][StepReturns => n_unfinished_futures' = Len(_futures')]_vars

\* the step from the unprimed to the primed state is a call of update_data,
\* direct or as the merge pass of step()
UpdateDataCalled ==
    \/ StepMerges /\ raised' # "StrictError"
    \/ pc = "idle" /\ caller' = "update_data" /\ ~HandleResolves

\* no handle of the handle map is done
NoneResolved == \A ix \in Range(_futures) : ~done(handle[ix])

\* C13: update_data called while no handle of the map is done leaves the rows
\* of the observation table, the pending table and the handle map as they
\* are; called again in that state it changes nothing at all in the tables
\* (the first call has made the batch of new data empty and the observation
\* table an existing one).
C13_UpdateDataWithNothingResolved ==
    /\ [][UpdateDataCalled /\ NoneResolved =>
             UNCHANGED <<_data, _input_data, _futures>>]_vars
    /\ [][UpdateDataCalled /\ NoneResolved
          /\ caller = "update_data" /\ _new_data = <<>> =>
             UNCHANGED tables]_vars

\* C13 witness: update_data has returned after a call that found a merged
\* row in the table and a running handle in the map, and merged nothing
C13_Witness ==
    /\ pc = "idle" /\ caller = "update_data" /\ raised = "none"
    /\ _new_data = <<>>
    /\ Len(_data) = 1
    /\ Len(_futures) = 1 /\ NoneResolved
    /\ Index(_input_data) = Range(_futures)

\* C14: a step() whose wait timed out with no handle done returns without an
\* error, strict or not, adds no row, keeps every handle in the handle map,
\* and leaves n_unfinished_futures at the number of handles in flight, which
\* is not zero (a failure of generator.add_data is not the step's).
C14_TimedOutStepMergesNothing ==
    [][StepMerges /\ timed_out /\ finished_futures = {}
       /\ raised' # "GeneratorError" =>
          /\ raised' = "none"
          /\ _data' = _data
          /\ _futures' = _futures
          /\ n_unfinished_futures' = Len(_futures')
          /\ n_unfinished_futures' > 0]_vars

\* the rows given to generator.add_data by the step to the primed state
Added == SubSeq(add_data_rows', Len(add_data_rows) + 1, Len(add_data_rows'))

\* C15: with a generator, every merge pass gives generator.add_data exactly
\* the batch it appends to the observation table and exposes as new_data;
\* the indices of a batch occur in no earlier batch; and the batches given,
\* concatenated in call order, are the observation table.
C15_GeneratorReceivesTheMergedBatches ==
    /\ [][generator /\ UpdateDataCalled =>
             /\ Added = Merged
             /\ Added = _new_data'
             /\ Index(Added) \cap Index(add_data_rows) = {}]_vars
    /\ [](generator => add_data_rows = _data /\ NoDuplicates(add_data_rows))

\* C15 witness: two merge passes have given the generator one row each, the
\* first of them in a call of add_data that raised
C15_Witness ==
    /\ generator
    /\ pc = "idle" /\ caller = "step" /\ raised = "none"
    /\ Len(add_data_rows) = 2
    /\ Len(_new_data) = 1
    /\ Index(_input_data) # Range(_futures)

\* C16: every row whose handle is done when a merge pass looks at the handle
\* map is, by that pass, appended to the observation table, taken out of the
\* handle map and out of the pending table, and given to the generator.
C16_ResolvedRowIsMergedAndRemoved ==
    [][Configured /\ UpdateDataCalled =>
          \A ix \in Range(_futures) : done(handle[ix]) =>
              /\ ix \in Index(Merged)
              /\ ix \in Index(Added)
              /\ ix \notin Range(_futures')
              /\ ix \notin Index(_input_data')]_vars

\* C17: an index leaves the handle map only by a call of update_data and only
\* if its handle is done at that call; the handle of a row that is not done
\* is neither removed nor replaced by any operation (it can only resolve),
\* and the row stays in the handle map and in the pending table.
C17_UnresolvedHandleStays ==
    /\ [][\A ix \in Range(_futures) :
             /\ ix \notin Range(_futures') =>
                   UpdateDataCalled /\ done(handle[ix])
             /\ ~done(handle[ix]) =>
                   /\ ix \in Range(_futures')
                   /\ ix \in Index(_input_data')
                   /\ handle'[ix].inputs = handle[ix].inputs
                   /\ handle'[ix].state # "none"
                   /\ HandleResolves \/ handle'[ix] = handle[ix]]_vars
    /\ [](\A ix \in Range(_futures) :
             ~done(handle[ix]) => ix \in Index(_input_data))

\* C17 witness: a row submitted by the first step is still running, in the
\* handle map and in the pending table, after a later step whose wait timed
\* out and whose merge pass took a later row
C17_Witness ==
    /\ pc = "idle" /\ caller = "step" /\ raised = "none"
    /\ timed_out
    /\ Len(_futures) >= 1
    /\ _futures[1] = 0 /\ handle[0].state = "running"
    /\ 0 \in Index(_input_data)
    /\ Len(_data) >= 1

\* the step from the unprimed to the primed state is run() calling step()
RunStepCalled ==
    run_pc = "loop" /\ pc = "idle" /\ (pc' # "idle" \/ raised' # raised)

Ascending(table) ==
    \A i, j \in 1..Len(table) : i < j => table[i].ix < table[j].ix

\* C19: every row of the observation table holds, under its index, the
\* inputs submitted under that index and the outcome of the handle of that
\* index (its result, or the error columns of its failure); the rows a merge
\* pass appends are in ascending index order within the batch.
C19_RowsCarryTheirOwnInputsAndOutcome ==
    /\ [](\A i \in 1..Len(_data) :
             LET r == _data[i]
                 f == handle[r.ix]
             IN /\ done(f)
                /\ r.x = f.inputs
                /\ r.x = Sample(r.ix)
                /\ f.state = "finished" =>
                      r.y = evaluate(r.x) /\ ~r.xopt_error
                /\ f.state = "failed" =>
                      r.y = NaN /\ r.xopt_error /\ r.xopt_error_str = Traceback)
    /\ [][UpdateDataCalled => Ascending(Merged)]_vars

\* C19 witness: row 1 was merged first; a later pass merged rows 0 and 2
\* together, row 0 failed; the table holds index 1 before index 0
C19_Witness ==
    /\ pc = "idle" /\ raised = "none"
    /\ Len(_data) = 3
    /\ _data[1].ix = 1 /\ _data[2].ix = 0 /\ _data[3].ix = 2
    /\ Len(_new_data) = 2
    /\ _data[2].xopt_error /\ ~_data[3].xopt_error

\* the positions of the rows of the data frame that have no missing input
\* and no missing value of the outcome asked for, ascending
Usable ==
    SelectSeq([i \in 1..Len(data.rows) |-> i],
              LAMBDA i : /\ \A k \in 1..Len(input_names) :
                               data.rows[i][input_names[k]] # NaN
                         /\ data.rows[i][outcome_name] # NaN)

\* C20: get_training_data returns exactly the rows with no missing input and
\* no missing value of the outcome asked for, in their original order,
\* whatever is missing in the other columns; train_X and train_Y have the same
\* number of rows; train_Yvar is None exactly when the frame has no column
\* '<outcome>_var', and has the same rows otherwise.
C20_TrainingRowsAreTheUsableRows ==
    training_pc = "returned" =>
        /\ train_X = [k \in 1..Len(Usable) |->
                        <<data.rows[Usable[k]]["x1"], data.rows[Usable[k]]["x2"]>>]
        /\ train_Y = [k \in 1..Len(Usable) |->
                        <<data.rows[Usable[k]][outcome_name]>>]
        /\ Len(train_X) = Len(train_Y)
        /\ train_Yvar.None <=> (outcome_name \o "_var") \notin data.columns
        /\ ~train_Yvar.None =>
              train_Yvar.rows =
                  [k \in 1..Len(Usable) |->
                      <<data.rows[Usable[k]][outcome_name \o "_var"]>>]

\* C20 witness: of two rows the first misses an input and is left out, the
\* second misses only the other outcome and its variance and is returned
C20_Witness ==
    /\ training_pc = "returned"
    /\ outcome_name = "y1"
    /\ Len(data.rows) = 2
    /\ data.rows[1]["x2"] = NaN
    /\ data.rows[2]["y2"] = NaN
    /\ ~train_Yvar.None
    /\ train_X = <<<<"x1_2", "x2_2">>>>
    /\ train_Y = <<<<"y1_2">>>>
    /\ train_Yvar.rows = <<<<NaN>>>>

C22_RequestNeverNegative ==
    [][StepCalled => n_generate' >= 0]_vars

\* C23: for bounds A and B of the same shape the bounds returned by
\* rectilinear_domain_union enclose both domains, in every dimension the
\* lower bound returned is at most both lower bounds and the upper bound
\* returned at least both upper bounds, and A and B are as they were.
C23_ReturnedBoundsEncloseBothDomains ==
    [][domain_pc = "called" /\ domain_pc' = "returned" =>
          /\ \A d \in 1..Len(A[1]) :
                /\ out_bounds'[1][d] <= A[1][d] /\ out_bounds'[1][d] <= B[1][d]
                /\ out_bounds'[2][d] >= A[2][d] /\ out_bounds'[2][d] >= B[2][d]
          /\ A' = A /\ B' = B]_vars

NextStepsAgain ==
    \/ \E ix \in Indices, ok \in BOOLEAN : Complete(ix, ok)
    \/ StepConfigError
    \/ StepGenerateError
    \/ \E batch \in generate(NGenerate), ok \in BOOLEAN : StepSubmit(batch, ok)
    \/ \E batch \in Batches, ok \in BOOLEAN : SubmitData(batch, ok)
    \/ Wait
    \/ MergeStrictRaise
    \/ \E ok \in BOOLEAN : Merge(ok)

SpecStepsAgain == Init /\ [][NextStepsAgain]_vars

\* a failed handle that every wait of a strict orchestrator finds: it is in
\* the handle map between operations or while a step waits, or in the done
\* set the wait of the running step returned
StrictFailurePending ==
    /\ strict
    /\ \E ix \in Range(_futures) :
          /\ exception(handle[ix])
          /\ pc \in {"idle", "waiting"} \/ ix \in finished_futures

\* the step from the unprimed to the primed state is the strict re-raise
StrictRaise == StepMerges /\ raised' = "StrictError"

\* C25 as claimed: the step() called after a step that aborted with a strict
\* re-raise submits new candidates, consuming new indices.
C25_LaterStepsConsumeNewIndices ==
    [][raised = "StrictError" /\ StepCalled /\ raised' = "none" =>
          _ix_last' > _ix_last]_vars

\* C25: a step() that aborts with a strict re-raise merges nothing: the
\* observation table, new_data and the unfinished count are as before the
\* step and every completed handle stays in the handle map and the pending
\* table; with no direct update_data call every later step() submits the
\* candidates it requests, which are none when the asynchronous request is
\* zero, unless it raises before, and then raises again at the strict check,
\* so that no row is merged after the first strict failure.
C25_StrictFailureStopsMerging ==
    /\ [][StepCalled =>
             UNCHANGED <<_data, data_None, _new_data, n_unfinished_futures>>]_vars
    /\ [][StrictRaise =>
             /\ UNCHANGED <<_data, data_None, _new_data, n_unfinished_futures,
                            _futures, _input_data>>
             /\ \A ix \in Range(_futures) :
                   done(handle[ix]) => ix \in Index(_input_data')
             /\ StrictFailurePending']_vars
    /\ [][StrictFailurePending =>
             /\ StrictFailurePending'
             /\ UNCHANGED <<_data, data_None, _new_data,
                            n_unfinished_futures>>]_vars
    /\ [][StrictFailurePending /\ StepCalled =>
             \/ raised' # "none"
             \/ /\ pc' = "waiting"
                /\ n_generate' = NGenerate
                /\ Len(Submitted) = NGenerate
                /\ _ix_last' = _ix_last + NGenerate]_vars
    /\ [][StrictFailurePending /\ StepMerges => StrictRaise]_vars

\* C25 witness: a strict step has just aborted at the strict check with one
\* handle failed and one succeeded; both are still in the handle map and the
\* pending table and nothing was merged
C25_Witness ==
    /\ strict
    /\ pc = "idle" /\ caller = "step" /\ raised = "StrictError"
    /\ _futures = <<0, 1>>
    /\ Index(_input_data) = {0, 1}
    /\ exception(handle[0])
    /\ handle[1].state = "finished"
    /\ _data = <<>> /\ _new_data = <<>>

\* the step from the unprimed to the primed state is a call of
\* Xopt.submit_data, direct or inside step(), in which the evaluator's
\* submit_data raised or the evaluator was missing
SubmitDataRaises ==
    /\ pc = "idle"
    /\ ~HandleResolves
    /\ caller' \in {"step", "submit_data"}
    /\ raised' \in {"EvaluatorError", "AttributeError"}

\* C26: a call of Xopt.submit_data in which the evaluator's submit_data
\* raises, or the evaluator is missing, leaves the last-index counter and the
\* pending-input table as they were before the call.
C26_FailedSubmissionHasNoEffect ==
    [][SubmitDataRaises => UNCHANGED <<_ix_last, _input_data>>]_vars

====
